---- MODULE Spec2Model ----
(***************************************************************************)
(* A model of crawl.py: the crawl loop with its frontier and visited set,  *)
(* the permit-guarded GET and PURGE requests, the cache renewal with its   *)
(* file moves, the cache key and path derivation, and the two link         *)
(* extractors.                                                             *)
(*                                                                         *)
(* Strings that the code takes apart are kept in parts: a URL is a record  *)
(* of scheme, host, port and path pieces (netloc = host plus ":" port when *)
(* a port is written), a content type is a record of type, subtype and     *)
(* parameter, a file path is a record of an absolute flag and its          *)
(* components, an MD5 digest is the sequence of its 32 hex digits.         *)
(***************************************************************************)
EXTENDS Integers, Sequences, FiniteSets, TLC

VARIABLES
    args_purge,        \* args.purge
    args_clean_cache,  \* args.clean_cache
    allowed_domains,   \* the global set filled from --domains
    start_url,         \* args.url
    site,              \* what the server has served: requested URL -> body (a set of references)
    files,             \* the file system: path -> data of the file at that path
                       \* ("original": there at the start, "fresh": written by the proxy since)
    queue,             \* crawl(): the local set `queue`
    visited_urls,      \* the global set visited_urls
    semaphore,         \* the value of asyncio.Semaphore(20): free permits
    inflight,          \* requests sent and not yet answered
    pc,                \* where the driver coroutine is
    url,               \* crawl(): the local `url` of the current iteration
    renew,             \* the frame of renew_page_cache while it awaits its fetch, and its result
    fetched,           \* (content_type, response) of the engine-level fetch_page
    purged,            \* what purge_page did in this iteration: outcome, return value, log record
    last,              \* how the last iteration of the while loop ended
    raised,            \* the exception that left crawl(), or None
    all_text_ok,       \* so far every engine-level fetch succeeded with a text/ content type
    fetched_ok,        \* history: the URLs whose engine-level fetch_page returned a response
    fetched_failed     \* history: the URLs whose engine-level fetch_page returned (None, None)

vars == <<args_purge, args_clean_cache, allowed_domains, start_url, site, files, queue,
          visited_urls, semaphore, inflight, pc, url, renew, fetched, purged, last, raised,
          all_text_ok, fetched_ok, fetched_failed>>

None == "None"

(***************************************************************************)
(* URLs                                                                    *)
(***************************************************************************)
Url(s, h, p, path) == [scheme |-> s, host |-> h, port |-> p, path |-> path]

Root == <<"/">>
SCss == <<"/s", ".css">>

U_http_root   == Url("http",  "example.com", "",     Root)
U_https_root  == Url("https", "example.com", "",     Root)
U_http_css    == Url("http",  "example.com", "",     SCss)
U_https_css   == Url("https", "example.com", "",     SCss)
U_other       == Url("http",  "other.com",   "",     Root)
U_port        == Url("http",  "example.com", "8080", Root)

RECURSIVE Concat(_)
Concat(pieces) == IF pieces = <<>> THEN "" ELSE Head(pieces) \o Concat(Tail(pieces))

\* urlparse(url).netloc: host and port as written
Netloc(u) == [host |-> u.host, port |-> u.port]
\* urlparse(url).hostname: the host without the port
Hostname(u) == u.host
\* a --domains value: a bare host name, as a netloc
Domain(h) == [host |-> h, port |-> ""]

\* str.endswith on the URL string: the URL ends with its last path piece
EndsWith(u, suffix) == u.path[Len(u.path)] = suffix

\* re.sub(r'^https', 'http', url)
SubHttps(u) == IF u.scheme = "https" THEN [u EXCEPT !.scheme = "http"] ELSE u

(***************************************************************************)
(* References found in a body, and urljoin                                 *)
(***************************************************************************)
AbsRef(u) == [kind |-> "abs", url |-> u]
RelRef(path) == [kind |-> "rel", path |-> path]

\* urljoin(base_url, ref): an absolute reference stands, a root-relative one
\* takes the scheme and netloc of the base
urljoin(base, ref) ==
    IF ref.kind = "abs" THEN ref.url
    ELSE Url(base.scheme, base.host, base.port, ref.path)

(***************************************************************************)
(* Cache key and cache path                                                *)
(***************************************************************************)
generate_cache_key(u) == u.scheme \o "GET" \o Hostname(u) \o Concat(u.path)

\* hashlib.md5(key.encode()).hexdigest() of the keys the model can form
md5_hexdigest(key) ==
    CASE key = "httpGETexample.com/" ->
           <<"d","d","f","1","5","8","b","2","9","2","e","d","f","a","a","1",
             "4","7","8","8","b","3","f","1","9","a","5","0","e","b","b","7">>
      [] key = "httpsGETexample.com/" ->
           <<"0","c","6","d","8","4","4","4","6","d","f","3","0","d","3","8",
             "c","2","c","6","8","2","1","3","4","d","5","e","e","9","3","7">>
      [] key = "httpGETexample.com/s.css" ->
           <<"4","5","3","4","f","b","5","e","f","9","f","3","9","9","d","6",
             "1","6","c","4","d","5","d","a","e","c","c","e","e","f","f","2">>
      [] key = "httpsGETexample.com/s.css" ->
           <<"d","9","b","6","6","c","a","6","8","1","3","e","0","1","6","b",
             "7","6","3","d","9","7","1","d","2","9","5","1","9","5","1","7">>
      [] key = "httpGETother.com/" ->
           <<"2","5","1","1","5","e","1","3","8","8","3","b","4","c","b","9",
             "4","b","3","2","e","9","c","a","e","9","c","b","3","a","2","6">>
      [] key = "httpGETother.com/s.css" ->
           <<"7","e","c","d","6","0","2","e","e","5","b","0","9","0","6","0",
             "7","9","4","a","6","c","f","f","f","5","9","b","6","d","7","f">>
      [] key = "httpsGETother.com/s.css" ->
           <<"2","a","1","6","a","b","3","b","6","0","e","3","1","a","1","1",
             "b","0","7","e","c","b","8","2","c","c","5","e","a","9","a","c">>
      [] key = "httpsGETother.com/" ->
           <<"c","1","c","1","e","1","0","b","5","6","4","a","1","6","1","3",
             "c","a","2","2","8","0","9","a","4","5","c","b","d","6","2","a">>

\* a Python slice digest[a:b] with negative indexes counted from the end
Slice(d, fromEnd, toEnd) == Concat(SubSeq(d, Len(d) - fromEnd + 1, Len(d) - toEnd))

Path(abs, parts) == [abs |-> abs, parts |-> parts]

\* os.path.join(a, b): an absolute second path discards the first
PathJoin(a, b) == IF b.abs THEN b ELSE Path(a.abs, a.parts \o b.parts)

cache_dir      == Path(TRUE, <<"root", "nginx", "cache">>)
temp_cache_dir == Path(TRUE, <<"tmp", "cache">>)
cache_path_levels == "1:2"

get_cache_file_path(cache_key) ==
    LET cache_key_md5 == md5_hexdigest(cache_key)
        whole == Concat(cache_key_md5)
    IN  IF cache_path_levels = "1:2"
        THEN PathJoin(cache_dir, Path(FALSE, <<Slice(cache_key_md5, 1, 0),
                                               Slice(cache_key_md5, 3, 1), whole>>))
        ELSE IF cache_path_levels = "1:2:3"
        THEN PathJoin(cache_dir, Path(FALSE, <<Slice(cache_key_md5, 1, 0),
                                               Slice(cache_key_md5, 3, 1),
                                               Slice(cache_key_md5, 6, 3), whole>>))
        ELSE PathJoin(cache_dir, Path(FALSE, <<whole>>))

(***************************************************************************)
(* The file system                                                         *)
(***************************************************************************)
\* os.path.exists
exists(fs, p) == p \in DOMAIN fs

\* os.rename(src, dst) that succeeds; renaming a file to itself changes nothing
rename(fs, src, dst) ==
    IF src = dst THEN fs
    ELSE [q \in (DOMAIN fs \ {src}) \cup {dst} |-> IF q = dst THEN fs[src] ELSE fs[q]]

\* os.remove(p) that succeeds
remove(fs, p) == [q \in DOMAIN fs \ {p} |-> fs[q]]

\* the proxy in front of the site keeps a response under the key of the
\* request it got ($scheme$request_method$host$request_uri, in cache_dir with
\* the levels of cache_path_levels): a successful GET that finds no entry at
\* that path leaves a fresh one there
ProxyStore(fs, request_url, outcome) ==
    LET p == get_cache_file_path(generate_cache_key(request_url))
    IN  IF outcome = "ok" /\ p \notin DOMAIN fs
        THEN [q \in DOMAIN fs \cup {p} |-> IF q = p THEN "fresh" ELSE fs[q]]
        ELSE fs

\* a file system call either succeeds or raises OSError and changes nothing
IoOutcomes == {"ok", "OSError"}

\* the files below a directory
Under(fs, dir) ==
    {q \in DOMAIN fs : /\ Len(q.parts) > Len(dir.parts)
                       /\ SubSeq(q.parts, 1, Len(dir.parts)) = dir.parts}

(***************************************************************************)
(* Content types                                                           *)
(***************************************************************************)
ContentType(t, st, param) == [type |-> t, subtype |-> st, param |-> param]
text_html      == ContentType("text", "html", "")
text_html_utf8 == ContentType("text", "html", "; charset=utf-8")
text_css       == ContentType("text", "css", "")
app_js         == ContentType("application", "javascript", "")
app_js_utf8    == ContentType("application", "javascript", "; charset=utf-8")
image_png      == ContentType("image", "png", "")

\* response.headers.get('Content-Type') of a response without the header: None
NoContentType  == ContentType(None, None, None)

\* response.headers.get('Content-Type'): a header value, or None
ContentTypes == {text_html, text_html_utf8, app_js, app_js_utf8, image_png, NoContentType}

\* content_type.startswith('text/'), on a content type that is a string
StartsWithText(ct) == ct.type = "text"

\* line 196, for a content type that is not None
DecodesAsText(ct) == ct \in {text_html, text_css, app_js} \/ StartsWithText(ct)

(***************************************************************************)
(* Link extraction                                                         *)
(***************************************************************************)
\* every href/src of the a, link, script, img, video and audio elements is a
\* reference of the body
extract_links_from_html_unfiltered(html, base_url) == {urljoin(base_url, r) : r \in html}
extract_links_from_html(html, base_url) ==
    {full_url \in {urljoin(base_url, r) : r \in html} : Netloc(full_url) \in allowed_domains}

\* the regular expression finds the absolute http(s) references only
extract_links_from_text(text, base_url) ==
    {full_url \in {urljoin(base_url, r) : r \in {m \in text : m.kind = "abs"}} :
        Netloc(full_url) = Netloc(base_url)}

\* lines 198-201
ExtractLinks(text, u) ==
    IF EndsWith(u, ".js") \/ EndsWith(u, ".css")
    THEN extract_links_from_text(text, u)
    ELSE extract_links_from_html(text, u)

(***************************************************************************)
(* Inputs                                                                  *)
(***************************************************************************)
MaxLinks == 2

Refs == {RelRef(Root), AbsRef(U_https_css), AbsRef(U_other), AbsRef(U_port)}
Bodies == {b \in SUBSET Refs : Cardinality(b) <= MaxLinks}

Seeds == {U_http_root, U_https_root, U_http_css}
DomainChoices == {{}, {Domain("example.com")}, {Domain("example.com"), Domain("other.com")}}

RECURSIVE Closure(_)
Closure(S) ==
    LET T == S \cup {urljoin(b, r) : b \in S, r \in Refs}
    IN  IF T = S THEN S ELSE Closure(T)
\* every URL the crawl can meet, and the pages behind them
Urls == Closure(Seeds)
Pages == {SubHttps(u) : u \in Urls}

\* the URLs whose cache entry the proxy holds at the start
CachedAtStart == {{U_http_css}, {U_http_root, U_http_css}}

(***************************************************************************)
(* Requests and permits                                                    *)
(***************************************************************************)
Capacity == 20

\* a request on the wire: the URL as sent, the loop's URL it is sent for,
\* and the function (and its caller) that sent it
Request(verb, u, by, caller) ==
    [verb |-> verb, url |-> SubHttps(u), for |-> u, by |-> by, caller |-> caller]

\* async with semaphore: __aenter__ takes a permit, __aexit__ gives it back
\* however the block is left
Acquire(sem) == sem - 1
ReleaseOnSuccessOnly(sem, outcome) == IF outcome = "ok" THEN sem + 1 ELSE sem
Release(sem, outcome) == sem + 1

\* how a GET ends: a response that passes raise_for_status, ClientResponseError,
\* another ClientError, asyncio.TimeoutError
FetchOutcomes == {"ok", "http_error", "transport", "timeout"}

\* fetch_page's return value
fetch_page_result(outcome, ct) ==
    IF outcome = "ok"
    THEN [content_type |-> ct, response |-> "ClientResponse"]
    ELSE [content_type |-> NoContentType, response |-> None]

NotFetched == [content_type |-> NoContentType, response |-> "NotFetched"]

\* how a PURGE ends: a response that passes raise_for_status, ClientResponseError
\* with status 404 or another status, another ClientError, asyncio.TimeoutError
PurgeOutcomes == {"ok", "404", "500", "transport", "timeout"}

\* purge_page: the return value, the record logged, the exception that leaves it
purge_page_result_no_404(outcome) ==
    CASE outcome = "ok"  -> [outcome |-> outcome, ret |-> "text", log |-> None, raised |-> None]
      [] outcome \in {"404", "500"} ->
            [outcome |-> outcome, ret |-> None, log |-> "ERROR: Failed to purge", raised |-> None]
      [] outcome = "transport" -> [outcome |-> outcome, ret |-> None, log |-> None,
                                   raised |-> "AttributeError"]
      [] outcome = "timeout" -> [outcome |-> outcome, ret |-> None, log |-> None,
                                 raised |-> "TimeoutError"]
purge_page_result(outcome) ==
    CASE outcome = "ok"  -> [outcome |-> outcome, ret |-> "text", log |-> None, raised |-> None]
      [] outcome = "404" -> [outcome |-> outcome, ret |-> None, log |-> "INFO: already purged",
                             raised |-> None]
      [] outcome = "500" -> [outcome |-> outcome, ret |-> None, log |-> "ERROR: Failed to purge",
                             raised |-> None]
      \* a ClientError that is no ClientResponseError has no attribute status
      [] outcome = "transport" -> [outcome |-> outcome, ret |-> None, log |-> None,
                                   raised |-> "AttributeError"]
      \* asyncio.TimeoutError is not an aiohttp.ClientError
      [] outcome = "timeout" -> [outcome |-> outcome, ret |-> None, log |-> None,
                                 raised |-> "TimeoutError"]

NotPurged == [outcome |-> None, ret |-> None, log |-> None, raised |-> None]

(***************************************************************************)
(* renew_page_cache                                                        *)
(***************************************************************************)
NoPath == Path(FALSE, <<>>)
RenewIdle == [status |-> "idle", existed |-> FALSE, cache_file_path |-> NoPath,
              temp_cache_file_path |-> NoPath, data |-> None, fetch |-> None, ret |-> FALSE]

\* line 92
TempPath(cache_file_path) == PathJoin(temp_cache_dir, cache_file_path)

\* lines 83-94, the cache file exists and both makedirs and rename succeed
RenewFrame(fs, u) ==
    LET cache_file_path == get_cache_file_path(generate_cache_key(u))
    IN  [status |-> "awaiting", existed |-> TRUE, cache_file_path |-> cache_file_path,
         temp_cache_file_path |-> TempPath(cache_file_path),
         data |-> fs[cache_file_path], fetch |-> None, ret |-> FALSE]

\* lines 88, 107: no file at the cache path, renew_page_cache returns False
RenewAbsentTouches(fs, cache_file_path) ==
    [files |-> [q \in DOMAIN fs \cup {cache_file_path} |->
                  IF q = cache_file_path THEN "fresh" ELSE fs[q]],
     ret |-> FALSE]
RenewAbsent(fs, cache_file_path) == [files |-> fs, ret |-> FALSE]

\* lines 97-110: what renew_page_cache does with the file once its fetch is back
RenewRemovesAlways(fs, r, outcome, io) ==
    IF io = "ok" THEN [files |-> remove(fs, r.temp_cache_file_path), ret |-> TRUE]
    ELSE [files |-> fs, ret |-> FALSE]
RenewAfterFetch(fs, r, outcome, io) ==
    IF outcome # "ok"
    THEN \* roll back; an OSError of the rename is caught at line 108
         IF io = "ok"
         THEN [files |-> rename(fs, r.temp_cache_file_path, r.cache_file_path), ret |-> FALSE]
         ELSE [files |-> fs, ret |-> FALSE]
    ELSE \* remove the moved file; an OSError of the remove is caught at line 108
         IF io = "ok"
         THEN [files |-> remove(fs, r.temp_cache_file_path), ret |-> TRUE]
         ELSE [files |-> fs, ret |-> FALSE]

(***************************************************************************)
(* crawl                                                                   *)
(***************************************************************************)
\* line 182
AlreadyVisitedNever(u, visited) == FALSE
AlreadyVisited(u, visited) == u \in visited

\* line 202
queue_update_replaces(q, links) == links
queue_update(q, links) == q \cup links

\* the body the server sends for a URL: the one it sent before, or any body
BodyChoices(u) == IF u \in DOMAIN site THEN {site[u]} ELSE Bodies

Serve(u, body) == [q \in DOMAIN site \cup {u} |-> IF q = u THEN body ELSE site[q]]

\* session.get / session.request inside `async with semaphore`
Send(req) ==
    /\ semaphore > 0
    /\ semaphore' = Acquire(semaphore)
    /\ inflight' = inflight \cup {req}

\* the response or the exception arrives and the `async with` blocks are left
Receive(req, outcome) ==
    /\ req \in inflight
    /\ semaphore' = Release(semaphore, outcome)
    /\ inflight' = inflight \ {req}

\* the request is answered and the next one is sent without a suspension between
ReceiveAndSendUnawaited(req, outcome, next) ==
    /\ req \in inflight
    /\ semaphore' = Acquire(semaphore)
    /\ inflight' = inflight \cup {next}
ReceiveAndSend(req, outcome, next) ==
    /\ req \in inflight
    /\ semaphore' = Acquire(Release(semaphore, outcome))
    /\ inflight' = (inflight \ {req}) \cup {next}

\* line 193
visited_add_nothing(visited, u) == visited
visited_add_replaces(visited, u) == {u}
visited_add(visited, u) == visited \cup {u}

\* what the engine-level fetch_page returned for the loop's URL, kept as history
Record(f) ==
    /\ fetched_ok' = IF f.response # None THEN fetched_ok \cup {url} ELSE fetched_ok
    /\ fetched_failed' = IF f.response = None THEN fetched_failed \cup {url}
                         ELSE fetched_failed

\* lines 191-202: the rest of the iteration once fetch (and purge) are done
EndIteration(f) ==
    IF f.response # None
    THEN /\ visited_urls' = visited_add(visited_urls, url)
         /\ IF f.content_type = NoContentType
            THEN \* None.startswith raises AttributeError
                 /\ pc' = "crashed" /\ raised' = "AttributeError" /\ last' = "visited"
                 /\ UNCHANGED <<queue, site>>
            ELSE IF DecodesAsText(f.content_type)
            THEN \E text \in BodyChoices(SubHttps(url)) :
                    /\ site' = Serve(SubHttps(url), text)
                    /\ queue' = queue_update(queue, ExtractLinks(text, url))
                    /\ pc' = "while" /\ last' = "extracted"
                    /\ UNCHANGED raised
            ELSE /\ pc' = "while" /\ last' = "visited"
                 /\ UNCHANGED <<queue, site, raised>>
    ELSE /\ pc' = "while" /\ last' = "failed"
         /\ UNCHANGED <<visited_urls, queue, site, raised>>

Config == <<args_purge, args_clean_cache, allowed_domains, start_url>>

Init ==
    /\ args_purge \in BOOLEAN
    /\ args_clean_cache \in BOOLEAN
    /\ allowed_domains \in DomainChoices
    /\ start_url \in Seeds
    /\ site = <<>>
    /\ \E cached \in CachedAtStart :
          files = [p \in {get_cache_file_path(generate_cache_key(u)) : u \in cached} |->
                     "original"]
    /\ queue = {start_url}
    /\ visited_urls = {}
    /\ semaphore = Capacity
    /\ inflight = {}
    /\ pc = "loop"
    /\ url = start_url
    /\ renew = RenewIdle
    /\ fetched = NotFetched
    /\ purged = NotPurged
    /\ last = "none"
    /\ raised = None
    /\ all_text_ok = TRUE
    /\ fetched_ok = {}
    /\ fetched_failed = {}

\* queue.pop() of a URL that is in visited_urls: lines 181-184
Skip(u) ==
    /\ pc = "loop" /\ u \in queue
    /\ AlreadyVisited(u, visited_urls)
    /\ queue' = queue \ {u}
    /\ url' = u
    /\ last' = "skipped"
    /\ pc' = "while"
    /\ UNCHANGED <<Config, site, files, visited_urls, semaphore, inflight, renew, fetched, purged,
                   raised, all_text_ok, fetched_ok, fetched_failed>>

\* lines 181-187 without --purge: the GET of fetch_page is sent
FetchStart(u) ==
    /\ pc = "loop" /\ u \in queue
    /\ ~AlreadyVisited(u, visited_urls)
    /\ ~args_purge
    /\ queue' = queue \ {u}
    /\ url' = u
    /\ Send(Request("GET", u, "fetch_page", "crawl"))
    /\ pc' = "fetch"
    /\ UNCHANGED <<Config, site, files, visited_urls, renew, fetched, purged, last, raised,
                   all_text_ok, fetched_ok, fetched_failed>>

\* --purge, no cache file at the path: renew_page_cache returns False (line 107)
RenewNothing(u) ==
    /\ pc = "loop" /\ u \in queue
    /\ ~AlreadyVisited(u, visited_urls)
    /\ args_purge
    /\ ~exists(files, get_cache_file_path(generate_cache_key(u)))
    /\ queue' = queue \ {u}
    /\ url' = u
    /\ LET cache_file_path == get_cache_file_path(generate_cache_key(u))
           absent == RenewAbsent(files, cache_file_path)
       IN  /\ renew' = [RenewIdle EXCEPT !.status = "returned",
                                         !.cache_file_path = cache_file_path,
                                         !.ret = absent.ret]
           /\ files' = absent.files
    /\ Send(Request("GET", u, "fetch_page", "crawl"))
    /\ pc' = "fetch"
    /\ UNCHANGED <<Config, site, visited_urls, fetched, purged, last, raised, all_text_ok,
                   fetched_ok, fetched_failed>>

\* --purge, the cache file exists, makedirs or rename raises: caught at line 108
RenewMoveFails(u) ==
    /\ pc = "loop" /\ u \in queue
    /\ ~AlreadyVisited(u, visited_urls)
    /\ args_purge
    /\ exists(files, get_cache_file_path(generate_cache_key(u)))
    /\ \E makedirs \in IoOutcomes, rename_io \in IoOutcomes :
          makedirs = "OSError" \/ rename_io = "OSError"
    /\ queue' = queue \ {u}
    /\ url' = u
    /\ renew' = [RenewFrame(files, u) EXCEPT !.status = "returned", !.ret = FALSE]
    /\ Send(Request("GET", u, "fetch_page", "crawl"))
    /\ pc' = "fetch"
    /\ UNCHANGED <<Config, site, files, visited_urls, fetched, purged, last, raised, all_text_ok,
                   fetched_ok, fetched_failed>>

\* --purge, the cache file exists and is moved: the GET of renew's fetch_page is sent
RenewMove(u) ==
    /\ pc = "loop" /\ u \in queue
    /\ ~AlreadyVisited(u, visited_urls)
    /\ args_purge
    /\ exists(files, get_cache_file_path(generate_cache_key(u)))
    /\ queue' = queue \ {u}
    /\ url' = u
    /\ renew' = RenewFrame(files, u)
    /\ files' = rename(files, renew'.cache_file_path, renew'.temp_cache_file_path)
    /\ Send(Request("GET", u, "fetch_page", "renew_page_cache"))
    /\ pc' = "renew_fetch"
    /\ UNCHANGED <<Config, site, visited_urls, fetched, purged, last, raised, all_text_ok,
                   fetched_ok, fetched_failed>>

\* renew's fetch_page returns: lines 96-106, then the GET of line 187 is sent
RenewFetchDone ==
    /\ pc = "renew_fetch"
    /\ \E outcome \in FetchOutcomes, io \in IoOutcomes :
          LET after == RenewAfterFetch(ProxyStore(files, SubHttps(url), outcome),
                                       renew, outcome, io)
          IN  /\ files' = after.files
              /\ renew' = [renew EXCEPT !.status = "returned", !.fetch = outcome,
                                        !.ret = after.ret]
              /\ ReceiveAndSend(Request("GET", url, "fetch_page", "renew_page_cache"), outcome,
                                Request("GET", url, "fetch_page", "crawl"))
    /\ pc' = "fetch"
    /\ UNCHANGED <<Config, site, queue, visited_urls, url, fetched, purged, last, raised,
                   all_text_ok, fetched_ok, fetched_failed>>

\* the engine-level fetch_page returns and, without --clean-cache, the iteration ends
FetchDone ==
    /\ pc = "fetch"
    /\ ~args_clean_cache
    /\ \E outcome \in FetchOutcomes, ct \in ContentTypes :
          /\ Receive(Request("GET", url, "fetch_page", "crawl"), outcome)
          /\ all_text_ok' = (all_text_ok /\ outcome = "ok" /\ StartsWithText(ct))
          /\ fetched' = fetch_page_result(outcome, ct)
          /\ Record(fetched')
          /\ files' = ProxyStore(files, SubHttps(url), outcome)
          /\ EndIteration(fetched')
    /\ UNCHANGED <<Config, url, renew, purged>>

\* the engine-level fetch_page returns and, with --clean-cache, the PURGE is sent
FetchDonePurge ==
    /\ pc = "fetch"
    /\ args_clean_cache
    /\ \E outcome \in FetchOutcomes, ct \in ContentTypes :
          /\ fetched' = fetch_page_result(outcome, ct)
          /\ Record(fetched')
          /\ files' = ProxyStore(files, SubHttps(url), outcome)
          /\ all_text_ok' = (all_text_ok /\ outcome = "ok" /\ StartsWithText(ct))
          /\ ReceiveAndSend(Request("GET", url, "fetch_page", "crawl"), outcome,
                            Request("PURGE", url, "purge_page", "crawl"))
    /\ pc' = "purge"
    /\ UNCHANGED <<Config, site, queue, visited_urls, url, renew, purged, last, raised>>

\* purge_page returns, or an exception leaves it; then the iteration ends
PurgeDone ==
    /\ pc = "purge"
    /\ \E outcome \in PurgeOutcomes :
          /\ Receive(Request("PURGE", url, "purge_page", "crawl"), outcome)
          /\ purged' = purge_page_result(outcome)
          /\ IF purged'.raised # None
             THEN /\ pc' = "crashed" /\ raised' = purged'.raised
                  /\ UNCHANGED <<site, queue, visited_urls, last>>
             ELSE EndIteration(fetched)
    /\ UNCHANGED <<Config, files, url, renew, fetched, all_text_ok, fetched_ok, fetched_failed>>

\* `while queue:` finds the queue non-empty: the next iteration starts with
\* its locals unset
Continue ==
    /\ pc = "while" /\ queue # {}
    /\ pc' = "loop"
    /\ url' = start_url
    /\ renew' = RenewIdle /\ fetched' = NotFetched /\ purged' = NotPurged /\ last' = "none"
    /\ UNCHANGED <<Config, site, files, queue, visited_urls, semaphore, inflight, raised,
                   all_text_ok, fetched_ok, fetched_failed>>

\* `while queue:` finds the queue empty; crawl returns
Finish ==
    /\ pc = "while" /\ queue = {}
    /\ pc' = "done"
    /\ url' = start_url
    /\ renew' = RenewIdle /\ fetched' = NotFetched /\ purged' = NotPurged /\ last' = "none"
    /\ UNCHANGED <<Config, site, files, queue, visited_urls, semaphore, inflight, raised,
                   all_text_ok, fetched_ok, fetched_failed>>

Next ==
    \/ \E u \in Urls : Skip(u)
    \/ \E u \in Urls : FetchStart(u)
    \/ \E u \in Urls : RenewNothing(u)
    \/ \E u \in Urls : RenewMoveFails(u)
    \/ \E u \in Urls : RenewMove(u)
    \/ RenewFetchDone
    \/ FetchDone
    \/ FetchDonePurge
    \/ PurgeDone
    \/ Continue
    \/ Finish

Spec == Init /\ [][Next]_vars

(***************************************************************************)
(* Claims                                                                  *)
(***************************************************************************)
Failures == {"http_error", "transport", "timeout"}
Stopped == pc \in {"done", "crashed"}

\* C1: once a URL is in visited_urls the crawl loop sends no request for it:
\* every request that goes on the wire is for a URL outside visited_urls, and
\* popping a URL that is in visited_urls ends the iteration as a skip with no
\* request sent, no file touched and visited_urls as it was.
C1_VisitedNeverRefetched ==
    [][ /\ \A r \in inflight' \ inflight : r.for \notin visited_urls
        /\ (pc = "loop" /\ \E u \in queue \ queue' : u \in visited_urls)
              => (last' = "skipped" /\ pc' = "while"
                  /\ UNCHANGED <<inflight, semaphore, files, visited_urls, renew, fetched, purged>>)
      ]_vars
\* a URL of visited_urls was popped again and skipped
C1_Witness == pc = "while" /\ last = "skipped" /\ url \in visited_urls

\* C2: whatever the requests answer, the crawl loop stops only by finding the
\* frontier empty: it is never left by an exception.
C2_StopsOnlyOnEmptyFrontier == Stopped => (pc = "done" /\ queue = {} /\ raised = None)

\* The links of a page as C3 counts them: what the extractor of the page's
\* mode finds (every reference in markup mode, the absolute ones in text
\* mode), resolved against the page's URL and kept when in scope.
C3_Found(u) ==
    IF SubHttps(u) \notin DOMAIN site THEN {}
    ELSE IF EndsWith(u, ".js") \/ EndsWith(u, ".css")
         THEN {urljoin(u, r) : r \in {m \in site[SubHttps(u)] : m.kind = "abs"}}
         ELSE {urljoin(u, r) : r \in site[SubHttps(u)]}
C3_TextPage(u) == EndsWith(u, ".js") \/ EndsWith(u, ".css")

\* in scope by host: the host is allow-listed (markup) or is the page's host (text)
C3_LinksByHost(u) ==
    {v \in C3_Found(u) : IF C3_TextPage(u) THEN Hostname(v) = Hostname(u)
                         ELSE Domain(Hostname(v)) \in allowed_domains}
\* in scope by netloc: host and written port together are allow-listed
\* (markup) or are those of the page (text)
C3_LinksByNetloc(u) ==
    {v \in C3_Found(u) : IF C3_TextPage(u) THEN Netloc(v) = Netloc(u)
                         ELSE Netloc(v) \in allowed_domains}

RECURSIVE C3_ClosureByHost(_)
C3_ClosureByHost(S) ==
    LET T == S \cup UNION {C3_LinksByHost(u) : u \in S}
    IN  IF T = S THEN S ELSE C3_ClosureByHost(T)
RECURSIVE C3_ClosureByNetloc(_)
C3_ClosureByNetloc(S) ==
    LET T == S \cup UNION {C3_LinksByNetloc(u) : u \in S}
    IN  IF T = S THEN S ELSE C3_ClosureByNetloc(T)

C4_RollbackOnFailedFetch ==
    (renew.status = "returned" /\ renew.existed /\ renew.fetch \in Failures)
       => /\ exists(files, renew.cache_file_path)
          /\ files[renew.cache_file_path] = renew.data
          /\ Under(files, temp_cache_dir) = {}
          /\ renew.ret = FALSE
C4_Witness ==
    /\ renew.status = "returned" /\ renew.existed /\ renew.fetch = "timeout"
    /\ renew.ret = FALSE /\ pc = "fetch"

\* C5: an entry that existed before renew_page_cache is never lost: when it
\* returns False the original entry is at its cache path, and when it has
\* removed the entry (it returns True) a fresh entry written by the proxy is
\* at the cache path.
C5_EntryNeverLost ==
    (renew.status = "returned" /\ renew.existed)
       => /\ exists(files, renew.cache_file_path)
          /\ ~renew.ret => files[renew.cache_file_path] = renew.data
          /\ renew.ret => (renew.fetch = "ok" /\ files[renew.cache_file_path] = "fresh")

\* C6: with --clean-cache a PURGE that fails with anything but a 404 is
\* absorbed: no exception leaves purge_page, the URL is in visited_urls when
\* its fetch succeeded, and the loop goes on.
C6_PurgeFailureAbsorbed ==
    (args_clean_cache /\ purged.outcome \in {"500", "transport", "timeout"})
       => /\ purged.raised = None /\ raised = None
          /\ pc # "crashed"
          /\ fetched.response = "ClientResponse" => url \in visited_urls

\* C7: a PURGE answered 404 is reported as already purged, at INFO level, and
\* not with the failure record that another HTTP error status gets.
C7_Purge404IsSuccess ==
    /\ purged.outcome = "404" => /\ purged.log = "INFO: already purged"
                                 /\ purged.raised = None
    /\ purged.outcome = "500" => purged.log = "ERROR: Failed to purge"
C7_Witness == purged.outcome = "404" /\ pc = "while"

\* C8: a failed engine-level fetch leaves visited_urls and the frontier as the
\* pop left them, and the loop goes on to its next test of the frontier.
C8_FailedFetchFrame ==
    [][ (pc \in {"fetch", "purge"} /\ pc' \notin {"fetch", "purge"}
         /\ fetched'.response = None)
           => (visited_urls' = visited_urls /\ queue' = queue /\ pc' = "while")
      ]_vars

\* a host is the seed's or is allow-listed
C9_HostInScope(u) ==
    Hostname(u) = Hostname(start_url) \/ Domain(Hostname(u)) \in allowed_domains

\* C9: every request on the wire, and every URL in the frontier, has the
\* seed's host or an allow-listed host; without --domains that is the seed's host.
C9_RequestsInScope ==
    /\ \A r \in inflight : C9_HostInScope(r.url) /\ C9_HostInScope(r.for)
    /\ \A u \in queue : C9_HostInScope(u)
    /\ allowed_domains = {} =>
          \A r \in inflight : Hostname(r.url) = Hostname(start_url)
\* a request for an extracted URL on an allow-listed host other than the seed's
C9_Witness ==
    \E r \in inflight : r.for # start_url /\ Hostname(r.url) # Hostname(start_url)

\* C10: a request is on the wire only while it holds a permit, never more than
\* Capacity of them, and every permit is back once the request has ended,
\* however it ended; all are free when the crawl has stopped.
C10_PermitsBoundRequests ==
    /\ semaphore \in 0..Capacity
    /\ Cardinality(inflight) = Capacity - semaphore
    /\ Cardinality(inflight) <= Capacity
    /\ (pc \in {"loop", "while"} \/ Stopped) => (inflight = {} /\ semaphore = Capacity)
\* a fetch that failed has ended and its permit is back
C10_Witness == pc = "while" /\ last = "failed" /\ semaphore = Capacity /\ inflight = {}

\* the engine-level GETs that a step puts on the wire
C11_NewEngineGets ==
    {r \in inflight' \ inflight : r.verb = "GET" /\ r.caller = "crawl"}

\* C11 as claimed: the engine makes at most one fetch attempt per URL: every
\* engine-level GET is for a URL whose fetch has neither succeeded nor failed
\* before.
C11_OneAttemptPerUrl ==
    [][ \A r \in C11_NewEngineGets : r.for \notin fetched_ok \cup fetched_failed ]_vars

\* C11 as amended: the engine makes at most one successful fetch per URL:
\* every engine-level GET is for a URL whose fetch has not succeeded before
\* (a URL whose fetch failed is attempted again when it is found again), and
\* no URL's fetch both succeeds and was recorded as succeeded already.
C11_OneSuccessPerUrl ==
    [][ /\ \A r \in C11_NewEngineGets : r.for \notin fetched_ok
        /\ \A u \in fetched_ok' \ fetched_ok : u = url /\ u \notin visited_urls
      ]_vars
\* a URL whose fetch failed was found again and its second attempt succeeded
C11_Witness ==
    pc = "while" /\ url \in fetched_failed /\ url \in fetched_ok /\ url \in visited_urls

\* C12: every request on the wire carries the http form of the loop's URL,
\* and the cache path renew_page_cache works on is the path of the key of
\* that http form, the key of the request that is sent.
C12_HttpFormEverywhere ==
    /\ \A r \in inflight : r.url = SubHttps(r.for) /\ r.url.scheme # "https"
    /\ renew.status # "idle" =>
          renew.cache_file_path = get_cache_file_path(generate_cache_key(SubHttps(url)))

\* C13: URLs are the same when their http forms are: no two URLs with the
\* same http form have both been fetched successfully, and visited_urls never
\* holds two URLs with the same http form.
C13_DedupByNormalizedUrl ==
    /\ \A u \in fetched_ok, v \in fetched_ok : SubHttps(u) = SubHttps(v) => u = v
    /\ \A u \in visited_urls, v \in visited_urls : SubHttps(u) = SubHttps(v) => u = v

\* C15: with --clean-cache a PURGE is on the wire only for a URL whose
\* engine-level fetch of this iteration returned a response.
C15_PurgeOnlyAfterSuccess ==
    \A r \in inflight :
        r.verb = "PURGE" => (args_clean_cache /\ r.for = url /\ fetched.response # None)

\* C16: when no file is at the cache path computed for the popped URL,
\* renew_page_cache returns False and touches nothing: the file system is as
\* it was (nothing in the cache directory or the holding directory is
\* created, moved or deleted) and renew_page_cache sends no GET.
C16_RenewAbsentNoEffect ==
    [][ (/\ pc = "loop" /\ args_purge
         /\ \E u \in queue \ queue' :
               /\ u \notin visited_urls
               /\ ~exists(files, get_cache_file_path(generate_cache_key(u))))
           => /\ renew'.status = "returned" /\ renew'.ret = FALSE
              /\ renew'.fetch = None
              /\ files' = files
              /\ Under(files', temp_cache_dir) = Under(files, temp_cache_dir)
              /\ \A r \in inflight' \ inflight : r.caller # "renew_page_cache"
      ]_vars
\* renew_page_cache has returned for a URL without a cache file, while the
\* cache holds the files of other URLs
C16_Witness ==
    /\ args_purge /\ pc = "fetch" /\ renew.status = "returned" /\ ~renew.existed
    /\ ~exists(files, renew.cache_file_path) /\ DOMAIN files # {}

\* the content types C17 names: markup-like and plain-text-like (text/...),
\* stylesheet (text/css) and script (application/javascript), with or
\* without a parameter
C17_TextLike(ct) ==
    ct.type = "text" \/ (ct.type = "application" /\ ct.subtype = "javascript")

\* C17: an iteration whose engine-level fetch returned a response ends with
\* the URL in visited_urls and the loop going on; the links of the body are
\* merged into the frontier exactly when the content type is text-like, and
\* for any other content type, a missing Content-Type header included, the
\* frontier gains nothing.
C17_ExtractByContentType ==
    [][ (/\ pc \in {"fetch", "purge"} /\ pc' \notin {"fetch", "purge"}
         /\ fetched'.response = "ClientResponse" /\ purged'.raised = None)
           => /\ url \in visited_urls'
              /\ pc' = "while"
              /\ IF C17_TextLike(fetched'.content_type)
                 THEN /\ last' = "extracted"
                      /\ queue' = queue \cup ExtractLinks(site'[SubHttps(url)], url)
                 ELSE /\ last' = "visited"
                      /\ queue' = queue
      ]_vars

\* the URLs whose engine-level fetch returned a response while their
\* iteration has not reached line 193: the PURGE is awaited, or an exception
\* of purge_page has left the loop
C18_Unfinished ==
    IF pc = "purge" \/ (pc = "crashed" /\ purged.raised # None) THEN {url} ELSE {}

\* C18: visited_urls only grows, and it holds exactly the URLs whose
\* engine-level fetch returned a response: every member is such a URL, every
\* such URL is a member once its iteration has passed line 193, and a step
\* adds at most the loop's URL and removes nothing.
C18_VisitedIsFetchedOk ==
    [][ /\ visited_urls \subseteq visited_urls'
        /\ visited_urls' \ visited_urls \subseteq {url}
        /\ visited_urls' \subseteq fetched_ok'
        /\ fetched_ok' \ visited_urls' \subseteq C18_Unfinished'
      ]_vars
\* two URLs are in visited_urls and a URL whose fetch failed is not
C18_Witness ==
    /\ pc = "while" /\ Cardinality(visited_urls) >= 2
    /\ fetched_failed \ visited_urls # {}

\* C19: the driver awaits each request before it goes on: at most one
\* request is on the wire and at most one permit is taken, the request on the
\* wire is for the URL of the running iteration, and a step that changes the
\* frontier or visited_urls is taken with no request of another URL
\* outstanding, before it or after it.
C19_OneRequestAtATime ==
    [][ /\ Cardinality(inflight') <= 1
        /\ semaphore' >= Capacity - 1
        /\ \A r \in inflight' : r.for = url'
        /\ (queue' # queue \/ visited_urls' # visited_urls)
              => /\ \A r \in inflight : r.for = url
                 /\ Cardinality(inflight) <= 1
      ]_vars
\* the PURGE of a later URL is awaited while the frontier and visited_urls
\* both hold URLs
C19_Witness ==
    /\ pc = "purge" /\ queue # {} /\ visited_urls # {}
    /\ \E r \in inflight : r.verb = "PURGE" /\ r.for = url /\ url # start_url
    /\ semaphore = Capacity - 1

====
